---------------------------- MODULE Spec2Model ----------------------------
(***************************************************************************)
(* A model of SpriteForge (src/App.tsx): a video is sampled into frames,   *)
(* the frames are edited, chroma-keyed and packed into a sprite sheet.     *)
(*                                                                         *)
(* Conventions                                                             *)
(*  - Time is counted in ticks of 1/TicksPerSec second, so that 1/fps is   *)
(*    a whole number of ticks for every fps the UI offers and the slider   *)
(*    step 0.1 s is 12 ticks.  Arithmetic is exact (no float rounding).    *)
(*  - similarity, smoothness and scale are kept in hundredths (the sliders *)
(*    step by 0.01 and 0.05).                                              *)
(*  - A pixel is <<r, g, b, a>>; an image or canvas is                     *)
(*    [width, height, data] with data the row-major pixel sequence.  A PNG *)
(*    data URL is represented by the image it encodes.                     *)
(*  - The canvas is taken to be lossless (no premultiplied-alpha loss).    *)
(***************************************************************************)
EXTENDS Integers, Sequences, FiniteSets, TLC

VARIABLES
    videoSrc,           \* 0 = null, else the id of the mounted <video> element
    duration, startTime, endTime, fps,
    isExtracting, progress, frames,
    chromaSettings, sheetSettings,
    previewFrameIndex, draggedIdx, showSheetPreview,
    generatedSheetUrl, isGenerating, currentFrameDim,
    video,              \* the <video> elements ever mounted: id -> element state
    previewCanvas,      \* the preview <canvas>
    previewLoad,        \* the image load the preview effect last started, if pending
    sheetCanvas,        \* the sheet <canvas>, always mounted
    ex,                 \* the running extractFrames call (its locals)
    exTimers,           \* pending setTimeout(() => setIsExtracting(false), 500)
    gen,                \* the running generateSpriteSheet call (its locals)
    reported,           \* the last alert / console.error issued
    uuidEpoch,          \* number of extractions started (crypto.randomUUID freshness)
    isPlaying

vars == << videoSrc, duration, startTime, endTime, fps, isExtracting, progress,
           frames, chromaSettings, sheetSettings, previewFrameIndex, draggedIdx,
           showSheetPreview, generatedSheetUrl, isGenerating, currentFrameDim,
           video, previewCanvas, previewLoad, sheetCanvas, ex, exTimers, gen,
           reported, uuidEpoch, isPlaying >>

-----------------------------------------------------------------------------
(* Bounds of the model *)

VideoW == 2             \* videoWidth of the modelled clips, in pixels
VideoH == 1             \* videoHeight of the modelled clips
MaxLoads == 1           \* videos loaded in one behaviour
MaxExtractions == 1     \* extractions started in one behaviour
MaxQueued == 2          \* seeked events of one element awaiting dispatch

(* Program constants *)

TicksPerSec == 120      \* lcm of the fps options 5, 10, 15, 24, 30
MaxFrames == 200        \* the safety break of extractFrames
MaxDist == 442          \* "Max Euclidian roughly"
SmoothScale == 100      \* smoothness * 100

NoSheet == [width |-> -1, height |-> -1, ops |-> << >>]     \* generatedSheetUrl = null
NoDim == [w |-> -1, h |-> -1]                               \* currentFrameDim = null
NoDrag == -1                                                \* draggedIdx = null
NoLoad == [img |-> << >>, settings |-> << >>]                \* no image load pending

-----------------------------------------------------------------------------
(* Pixels, images and canvases *)

Transparent == <<0, 0, 0, 0>>

BlankCanvas(w, h) ==
    [width |-> w, height |-> h, data |-> [i \in 1..(w * h) |-> Transparent]]

\* Sample pixels the modelled clips are made of.
Palette ==
    << <<0, 255, 0, 255>>,      \* the default key colour
       <<115, 255, 0, 255>>,    \* dist 115
       <<221, 255, 0, 255>>,    \* dist 221 = 0.5 * 442
       <<231, 255, 0, 255>>,    \* dist 231 = 0.5 * 442 + 0.1 * 100
       <<128, 128, 128, 255>>,  \* dist ~ 221.3
       <<120, 255, 0, 128>>,    \* semi-transparent, dist 120
       <<0, 0, 255, 255>>,      \* blue
       <<0, 0, 0, 0>>,          \* transparent
       <<255, 0, 255, 255>>,    \* the farthest colour from green, dist ~ 441.7
       <<226, 255, 0, 200>> >>  \* semi-transparent, dist 226

\* The picture a clip shows: VideoW x VideoH pixels taken from the palette
\* starting at entry k.
Picture(k) ==
    [width |-> VideoW, height |-> VideoH,
     data |-> [i \in 1..(VideoW * VideoH) |->
                  Palette[((k + i - 2) % Len(Palette)) + 1]]]

\* ctx.drawImage(img, 0, 0, w, h) for one pixel: source-over compositing of
\* source pixel s onto destination pixel d.
SrcOver(s, d) ==
    IF s[4] = 255 \/ d[4] = 0 THEN (IF s[4] = 0 THEN Transparent ELSE s)
    ELSE IF s[4] = 0 THEN d
    ELSE LET db == (d[4] * (255 - s[4])) \div 255
             oa == s[4] + db
             Mix(c) == (s[c] * s[4] + d[c] * db) \div oa
         IN  <<Mix(1), Mix(2), Mix(3), oa>>

\* ctx.clearRect(0, 0, width, height)
ClearRect(canvas) ==
    [canvas EXCEPT !.data = [i \in DOMAIN canvas.data |-> Transparent]]

\* ctx.drawImage(img, 0, 0, width, height), img and canvas of the same size
DrawImage(canvas, img) ==
    [canvas EXCEPT !.data =
        [i \in DOMAIN canvas.data |-> SrcOver(img.data[i], canvas.data[i])]]

-----------------------------------------------------------------------------
(* hexToRgb.  A hex colour is the sequence of its digits' values; a string *)
(* the regular expression rejects is any sequence that is not six digits.  *)

HexDigit == 0..15

hexToRgb(hex) ==
    IF Len(hex) = 6 /\ \A i \in 1..6 : hex[i] \in HexDigit
    THEN <<16 * hex[1] + hex[2], 16 * hex[3] + hex[4], 16 * hex[5] + hex[6]>>
    ELSE <<0, 255, 0>>

-----------------------------------------------------------------------------
(* Exact comparisons with Math.sqrt *)

\* B * sqrt(d2) >= A, for integers A >= 0, B > 0, d2 >= 0, without forming
\* B * B * d2 (which leaves the 32-bit range of the checker).
SqrtGeq(B, d2, A) ==
    LET q == A \div B
        r == A % B
    IN  IF q * q > d2 THEN FALSE
        ELSE IF d2 >= (q + 1) * (q + 1) THEN TRUE
        ELSE (r * r + B - 1) \div B <= B * (d2 - q * q) - 2 * q * r

\* dist < num / 50
DistLess(d2, num) == ~SqrtGeq(50, d2, num)

\* Math.floor(((dist - threshold) / smoothRange) * 255), for a pixel inside the
\* band: the greatest a in lo..hi with a * smoothRange <= 255 * (dist - threshold),
\* threshold and smoothRange given in fiftieths.
RECURSIVE FloorAlpha(_, _, _, _, _)
FloorAlpha(d2, thr50, sr50, lo, hi) ==
    IF lo = hi THEN lo
    ELSE LET mid == (lo + hi + 1) \div 2
         IN  IF SqrtGeq(255 * 50, d2, mid * sr50 + 255 * thr50)
             THEN FloorAlpha(d2, thr50, sr50, mid, hi)
             ELSE FloorAlpha(d2, thr50, sr50, lo, mid - 1)

-----------------------------------------------------------------------------
(* Chroma key: processFrame *)

\* similarityThreshold = settings.similarity * 442, in fiftieths
Threshold50(settings) == (settings.similarity * MaxDist) \div 2

\* smoothRange = settings.smoothness * 100, in fiftieths
SmoothRange50(settings) == (settings.smoothness * SmoothScale) \div 2

SqDist(p, key) ==
    (p[1] - key[1]) * (p[1] - key[1]) + (p[2] - key[2]) * (p[2] - key[2])
        + (p[3] - key[3]) * (p[3] - key[3])

\* KeyPixel with the first comparison written dist <= threshold.
KeyPixelInclusive(p, settings) ==
    LET key == hexToRgb(settings.color)
        d2 == SqDist(p, key)
        thr == Threshold50(settings)
        sr == SmoothRange50(settings)
    IN  IF 2500 * d2 <= thr * thr THEN <<p[1], p[2], p[3], 0>>
        ELSE IF DistLess(d2, thr + sr)
             THEN <<p[1], p[2], p[3], FloorAlpha(d2, thr, sr, 0, 255)>>
             ELSE p

KeyPixelFallingRamp(p, settings) ==
    LET key == hexToRgb(settings.color)
        d2 == SqDist(p, key)
        thr == Threshold50(settings)
        sr == SmoothRange50(settings)
    IN  IF DistLess(d2, thr) THEN <<p[1], p[2], p[3], 0>>
        ELSE IF DistLess(d2, thr + sr)
             THEN <<p[1], p[2], p[3], 255 - FloorAlpha(d2, thr, sr, 0, 255)>>
             ELSE p

\* The body of the pixel loop.
KeyPixel(p, settings) ==
    LET key == hexToRgb(settings.color)
        d2 == SqDist(p, key)
        thr == Threshold50(settings)
        sr == SmoothRange50(settings)
    IN  IF DistLess(d2, thr) THEN <<p[1], p[2], p[3], 0>>
        ELSE IF DistLess(d2, thr + sr)
             THEN <<p[1], p[2], p[3], FloorAlpha(d2, thr, sr, 0, 255)>>
             ELSE p

\* processFrame without its clearRect.
processFrameNoClear(canvas, img, settings) ==
    LET drawn == DrawImage(canvas, img)
    IN  IF ~settings.enabled THEN drawn
        ELSE [drawn EXCEPT !.data = [i \in DOMAIN drawn.data |->
                                        KeyPixel(drawn.data[i], settings)]]

\* processFrame(ctx, img, settings, width, height): the canvas behind ctx after
\* the call.
processFrame(canvas, img, settings) ==
    LET drawn == DrawImage(ClearRect(canvas), img)
    IN  IF ~settings.enabled THEN drawn
        ELSE [drawn EXCEPT !.data = [i \in DOMAIN drawn.data |->
                                        KeyPixel(drawn.data[i], settings)]]

-----------------------------------------------------------------------------
(* Initial state: the useState / useRef initialisers *)

DefaultChroma ==
    [enabled |-> TRUE, color |-> <<0, 0, 15, 15, 0, 0>>, similarity |-> 25,
     smoothness |-> 10, spill |-> 10]

DefaultSheet ==
    [columns |-> 5, scale |-> 50, padding |-> 2, outputMode |-> "scale",
     customWidth |-> 128, customHeight |-> 128]

\* A <video> element that was never given a source.
NoVideo ==
    [ready |-> FALSE, dur |-> 0, clip |-> 0, time |-> 0, seeking |-> -1, seekBy |-> 0,
     queued |-> << >>, paused |-> TRUE]

\* A <canvas> as created: 300 x 150, nothing drawn.
NewSheetCanvas == [width |-> 300, height |-> 150, ops |-> << >>]

ExIdle ==
    [pc |-> "idle", call |-> 0, vid |-> 0, startTime |-> 0, endTime |-> 0,
     interval |-> 0, cursor |-> 0, extracted |-> << >>]

GenIdle ==
    [pc |-> "idle", selectedFrames |-> << >>, sheetSettings |-> DefaultSheet,
     chromaSettings |-> DefaultChroma, i |-> 0, originalW |-> 0, originalH |-> 0,
     targetW |-> -1, targetH |-> -1, offCanvas |-> BlankCanvas(0, 0)]

Init ==
    /\ videoSrc = 0
    /\ duration = 0
    /\ startTime = 0
    /\ endTime = 0
    /\ fps = 10
    /\ isExtracting = FALSE
    /\ progress = 0
    /\ frames = << >>
    /\ chromaSettings = DefaultChroma
    /\ sheetSettings = DefaultSheet
    /\ previewFrameIndex = 0
    /\ draggedIdx = NoDrag
    /\ showSheetPreview = FALSE
    /\ generatedSheetUrl = NoSheet
    /\ isGenerating = FALSE
    /\ currentFrameDim = NoDim
    /\ video = [e \in 1..MaxLoads |-> NoVideo]
    /\ previewCanvas = BlankCanvas(0, 0)
    /\ previewLoad = NoLoad
    /\ sheetCanvas = NewSheetCanvas
    /\ ex = ExIdle
    /\ exTimers = 0
    /\ gen = GenIdle
    /\ reported = "none"
    /\ uuidEpoch = 0
    /\ isPlaying = FALSE

-----------------------------------------------------------------------------
(* The preview effect: useEffect(..., [frames, previewFrameIndex, chromaSettings]) *)

\* The effect body, run after a render that changed frames, previewFrameIndex or
\* chromaSettings to f, idx, cs: the image load it starts (or the one still
\* pending).  The preview canvas is mounted with step 3 of the page.
PreviewEffect(f, idx, cs, sheetShown) ==
    IF Len(f) > 0 /\ ~sheetShown /\ idx + 1 \in DOMAIN f
    THEN [img |-> f[idx + 1].originalDataUrl, settings |-> cs]
    ELSE previewLoad

PreviewOnloadInPlace ==
    /\ previewLoad # NoLoad
    /\ LET img == previewLoad.img
           out == processFrame(BlankCanvas(img.width, img.height), img, previewLoad.settings)
       IN  /\ previewCanvas' = out
           /\ currentFrameDim' = [w |-> img.width, h |-> img.height]
           /\ frames' = [i \in DOMAIN frames |->
                           IF i = previewFrameIndex + 1
                           THEN [frames[i] EXCEPT !.originalDataUrl = out]
                           ELSE frames[i]]
    /\ previewLoad' = NoLoad
    /\ UNCHANGED << videoSrc, duration, startTime, endTime, fps, isExtracting, progress,
                    chromaSettings, sheetSettings, previewFrameIndex, draggedIdx,
                    showSheetPreview, generatedSheetUrl, isGenerating, video,
                    sheetCanvas, ex, exTimers, gen, reported, uuidEpoch, isPlaying >>

\* img.onload of the preview effect
PreviewOnload ==
    /\ previewLoad # NoLoad
    /\ LET img == previewLoad.img
       IN  /\ previewCanvas' =
                processFrame(BlankCanvas(img.width, img.height), img, previewLoad.settings)
           /\ currentFrameDim' = [w |-> img.width, h |-> img.height]
    /\ previewLoad' = NoLoad
    /\ UNCHANGED << videoSrc, duration, startTime, endTime, fps, isExtracting, progress,
                    frames, chromaSettings, sheetSettings, previewFrameIndex, draggedIdx,
                    showSheetPreview, generatedSheetUrl, isGenerating, video,
                    sheetCanvas, ex, exTimers, gen, reported, uuidEpoch, isPlaying >>

-----------------------------------------------------------------------------
(* Settings handlers.  The settings panel is part of step 3 of the page,   *)
(* rendered when frames.length > 0 && !showSheetPreview.                    *)

\* The page renders frames.filter(f => f.selected) and frame.id of every frame;
\* a frame that is undefined throws there and React unmounts the page.
Rendered == \A i \in DOMAIN frames : frames[i].id # -1

Step3Shown == Rendered /\ Len(frames) > 0 /\ ~showSheetPreview

\* The value of a typed decimal text, given as the sequence of its digits.
RECURSIVE DecimalValue(_)
DecimalValue(text) ==
    IF Len(text) = 0 THEN 0
    ELSE 10 * DecimalValue(SubSeq(text, 1, Len(text) - 1)) + text[Len(text)]

\* parseInt(e.target.value) || 0 : the empty text parses to NaN, which is falsy.
ParseIntOrZero(text) == IF Len(text) = 0 THEN 0 ELSE DecimalValue(text)

Max(a, b) == IF a >= b THEN a ELSE b
Min(a, b) == IF a <= b THEN a ELSE b

ChromaUnchanged ==
    UNCHANGED << videoSrc, duration, startTime, endTime, fps, isExtracting, progress,
                 frames, sheetSettings, previewFrameIndex, draggedIdx, showSheetPreview,
                 generatedSheetUrl, isGenerating, currentFrameDim, video, previewCanvas,
                 sheetCanvas, ex, exTimers, gen, reported, uuidEpoch, isPlaying >>

\* setChromaSettings(next), followed by the preview effect
SetChroma(next) ==
    /\ Step3Shown
    /\ chromaSettings' = next
    /\ previewLoad' = PreviewEffect(frames, previewFrameIndex, next, showSheetPreview)
    /\ ChromaUnchanged

SetChromaEnabled == SetChroma([chromaSettings EXCEPT !.enabled = ~chromaSettings.enabled])

SetChromaColor(colors) ==
    \E c \in colors : SetChroma([chromaSettings EXCEPT !.color = c])

SetSimilarity(values) ==
    \E v \in values : SetChroma([chromaSettings EXCEPT !.similarity = v])

SetSmoothness(values) ==
    \E v \in values : SetChroma([chromaSettings EXCEPT !.smoothness = v])

SheetUnchanged ==
    UNCHANGED << videoSrc, duration, startTime, endTime, fps, isExtracting, progress,
                 frames, chromaSettings, previewFrameIndex, draggedIdx, showSheetPreview,
                 generatedSheetUrl, isGenerating, currentFrameDim, video, previewCanvas,
                 previewLoad, sheetCanvas, ex, exTimers, gen, reported, uuidEpoch, isPlaying >>

\* setSheetSettings(next)
SetSheet(next) ==
    /\ Step3Shown
    /\ sheetSettings' = next
    /\ SheetUnchanged

SetOutputMode ==
    \E m \in {"scale", "fixed"} : SetSheet([sheetSettings EXCEPT !.outputMode = m])

\* the scale slider: min 0.1, max 1, step 0.05, shown in scale mode
SetScale(values) ==
    /\ sheetSettings.outputMode = "scale"
    /\ \E v \in values : SetSheet([sheetSettings EXCEPT !.scale = v])

\* the width and height boxes, shown in fixed mode
SetCustomWidth(texts) ==
    /\ sheetSettings.outputMode = "fixed"
    /\ \E t \in texts :
          SetSheet([sheetSettings EXCEPT !.customWidth = ParseIntOrZero(t)])

SetCustomHeight(texts) ==
    /\ sheetSettings.outputMode = "fixed"
    /\ \E t \in texts :
          SetSheet([sheetSettings EXCEPT !.customHeight = ParseIntOrZero(t)])

\* the columns and padding boxes, given a non-empty text
SetColumns(texts) ==
    \E t \in texts :
        /\ Len(t) > 0
        /\ SetSheet([sheetSettings EXCEPT !.columns = Max(1, DecimalValue(t))])

SetPadding(texts) ==
    \E t \in texts :
        /\ Len(t) > 0
        /\ SetSheet([sheetSettings EXCEPT !.padding = Max(0, DecimalValue(t))])

-----------------------------------------------------------------------------
(* Sprite sheet generation: generateSpriteSheet *)

SelectedFrames(f) == SelectSeq(f, LAMBDA x : x.selected)

\* Math.round(n / d) for n >= 0, d > 0
RoundDiv(n, d) == (2 * n + d) \div (2 * d)

\* Math.ceil(n / d) for n >= 0, d > 0
CeilDiv(n, d) == (n + d - 1) \div d

TargetW(ss, originalW) ==
    IF ss.outputMode = "fixed" THEN ss.customWidth
    ELSE RoundDiv(originalW * ss.scale, 100)

TargetH(ss, originalH) ==
    IF ss.outputMode = "fixed" THEN ss.customHeight
    ELSE RoundDiv(originalH * ss.scale, 100)

SheetRows(n, cols) == CeilDiv(n, cols)

SheetWidthTrailingPadding(cols, targetW, padding) == cols * (targetW + padding)

SheetWidth(cols, targetW, padding) == (cols * targetW) + ((cols - 1) * padding)

SheetHeight(rows, targetH, padding) == (rows * targetH) + ((rows - 1) * padding)

CellXByRow(i, cols, targetW, padding) == (i \div cols) * (targetW + padding)

CellX(i, cols, targetW, padding) == (i % cols) * (targetW + padding)

CellYByColumn(i, cols, targetH, padding) == (i % cols) * (targetH + padding)

CellY(i, cols, targetH, padding) == (i \div cols) * (targetH + padding)

GenUnchanged ==
    UNCHANGED << videoSrc, duration, startTime, endTime, fps, isExtracting, progress,
                 frames, chromaSettings, sheetSettings, previewFrameIndex, draggedIdx,
                 currentFrameDim, video, previewCanvas, previewLoad, ex, exTimers,
                 uuidEpoch, isPlaying >>

\* The click on the generate button, up to the first await.  The button is in
\* step 3 (so frames.length > 0 and the first return is not taken) and is
\* disabled while isGenerating.
GenerateClick ==
    /\ Step3Shown
    /\ ~isGenerating
    /\ generatedSheetUrl' = NoSheet
    /\ LET selectedFrames == SelectedFrames(frames)
       IN  IF Len(selectedFrames) = 0
           THEN /\ reported' = "alert: no frame selected"
                /\ isGenerating' = FALSE
                /\ gen' = GenIdle
           ELSE /\ reported' = reported
                /\ isGenerating' = TRUE
                /\ gen' = [GenIdle EXCEPT !.pc = "first",
                                          !.selectedFrames = selectedFrames,
                                          !.sheetSettings = sheetSettings,
                                          !.chromaSettings = chromaSettings]
    /\ UNCHANGED << showSheetPreview, sheetCanvas >>
    /\ GenUnchanged

\* The first image has loaded: the geometry, the canvases, and the loop up to
\* its first await.
GenFirstLoaded ==
    /\ gen.pc = "first"
    /\ LET firstImg == gen.selectedFrames[1].originalDataUrl
           ss == gen.sheetSettings
           targetW == TargetW(ss, firstImg.width)
           targetH == TargetH(ss, firstImg.height)
           cols == ss.columns
           rows == SheetRows(Len(gen.selectedFrames), cols)
       IN  /\ sheetCanvas' = [width |-> SheetWidth(cols, targetW, ss.padding),
                              height |-> SheetHeight(rows, targetH, ss.padding),
                              ops |-> << >>]
           /\ gen' = [gen EXCEPT !.pc = "frame", !.i = 0,
                                 !.originalW = firstImg.width,
                                 !.originalH = firstImg.height,
                                 !.targetW = targetW, !.targetH = targetH,
                                 !.offCanvas = BlankCanvas(firstImg.width, firstImg.height)]
    /\ UNCHANGED << showSheetPreview, generatedSheetUrl, isGenerating, reported >>
    /\ GenUnchanged

GenFrameLoadedStuck ==
    /\ gen.pc = "frame"
    /\ LET frame == gen.selectedFrames[gen.i + 1]
           ss == gen.sheetSettings
           x == CellX(gen.i, ss.columns, gen.targetW, ss.padding)
           y == CellY(gen.i, ss.columns, gen.targetH, ss.padding)
           off == processFrame(gen.offCanvas, frame.originalDataUrl, gen.chromaSettings)
           sheet == [sheetCanvas EXCEPT !.ops =
                        Append(@, [frameId |-> frame.id, x |-> x, y |-> y,
                                   w |-> gen.targetW, h |-> gen.targetH,
                                   data |-> off.data])]
       IN  /\ sheetCanvas' = sheet
           /\ IF gen.i + 1 < Len(gen.selectedFrames)
              THEN /\ gen' = [gen EXCEPT !.i = gen.i + 1, !.offCanvas = off]
                   /\ UNCHANGED << showSheetPreview, generatedSheetUrl, isGenerating >>
              ELSE /\ gen' = [gen EXCEPT !.pc = "idle", !.i = gen.i + 1, !.offCanvas = off]
                   /\ IF Rendered
                      THEN /\ generatedSheetUrl' = sheet
                           /\ showSheetPreview' = TRUE
                           /\ isGenerating' = isGenerating
                      ELSE UNCHANGED << showSheetPreview, generatedSheetUrl, isGenerating >>
    /\ reported' = reported
    /\ GenUnchanged

\* The image of selectedFrames[i] has loaded: the rest of the loop body, and
\* either the next await or the end of the function.
GenFrameLoaded ==
    /\ gen.pc = "frame"
    /\ LET frame == gen.selectedFrames[gen.i + 1]
           ss == gen.sheetSettings
           x == CellX(gen.i, ss.columns, gen.targetW, ss.padding)
           y == CellY(gen.i, ss.columns, gen.targetH, ss.padding)
           off == processFrame(gen.offCanvas, frame.originalDataUrl, gen.chromaSettings)
           sheet == [sheetCanvas EXCEPT !.ops =
                        Append(@, [frameId |-> frame.id, x |-> x, y |-> y,
                                   w |-> gen.targetW, h |-> gen.targetH,
                                   data |-> off.data])]
       IN  /\ sheetCanvas' = sheet
           /\ IF gen.i + 1 < Len(gen.selectedFrames)
              THEN /\ gen' = [gen EXCEPT !.i = gen.i + 1, !.offCanvas = off]
                   /\ UNCHANGED << showSheetPreview, generatedSheetUrl, isGenerating >>
              ELSE /\ gen' = [gen EXCEPT !.pc = "idle", !.i = gen.i + 1, !.offCanvas = off]
                   /\ IF Rendered
                      THEN /\ generatedSheetUrl' = sheet
                           /\ showSheetPreview' = TRUE
                           /\ isGenerating' = FALSE
                      ELSE UNCHANGED << showSheetPreview, generatedSheetUrl, isGenerating >>
    /\ reported' = reported
    /\ GenUnchanged

\* The image load the generation awaits fails: img.onerror rejects, the catch
\* block alerts and the finally block clears isGenerating.
GenLoadFailed ==
    /\ gen.pc \in {"first", "frame"}
    /\ gen' = [gen EXCEPT !.pc = "idle"]
    /\ reported' = "alert: generation failed"
    /\ isGenerating' = IF Rendered THEN FALSE ELSE isGenerating
    /\ UNCHANGED << showSheetPreview, generatedSheetUrl, sheetCanvas >>
    /\ GenUnchanged

\* "continue editing" and the back arrow of the sheet preview
BackToEdit ==
    /\ Rendered
    /\ showSheetPreview
    /\ showSheetPreview' = FALSE
    /\ UNCHANGED << videoSrc, duration, startTime, endTime, fps, isExtracting, progress,
                    frames, chromaSettings, sheetSettings, previewFrameIndex, draggedIdx,
                    generatedSheetUrl, isGenerating, currentFrameDim, video,
                    previewCanvas, previewLoad, sheetCanvas, ex, exTimers, gen,
                    reported, uuidEpoch, isPlaying >>

-----------------------------------------------------------------------------
(* The <video> element and the video handlers *)

Step2Shown == Rendered /\ videoSrc # 0 /\ ~showSheetPreview

\* Files the user can pick: a clip has a duration (ticks) and a content.
Clip(dur, content) == [dur |-> dur, content |-> content]

\* The picture the element shows at position t of its clip; it changes every
\* 4 ticks (1/30 s).
ClipPicture(el) ==
    Picture(((el.clip + (el.time \div 4) - 1) % Len(Palette)) + 1)

\* vid.currentTime = t : the seek algorithm.  It replaces a seek still running;
\* an element without metadata only notes a default start position.  by tells
\* the seeks apart: the number of the extractFrames call that seeks for a
\* frame, 0 for every other seek.
SeekFor(v, e, t, by) ==
    IF v[e].ready THEN [v EXCEPT ![e].seeking = t, ![e].seekBy = by] ELSE v

Seek(v, e, t) == SeekFor(v, e, t, 0)

LoadedCount == Cardinality({e \in DOMAIN video : video[e].clip # 0})

\* handleFileChange: the file input is rendered while videoSrc is null; the new
\* <video> element is mounted with the new source.
handleFileChange(clips) ==
    /\ Rendered
    /\ videoSrc = 0
    /\ LoadedCount < MaxLoads
    /\ \E c \in clips :
          LET e == LoadedCount + 1
          IN  /\ videoSrc' = e
              /\ video' = [video EXCEPT ![e] =
                              [NoVideo EXCEPT !.dur = c.dur, !.clip = c.content]]
    /\ frames' = << >>
    /\ startTime' = 0
    /\ endTime' = 0
    /\ showSheetPreview' = FALSE
    /\ generatedSheetUrl' = NoSheet
    /\ progress' = 0
    /\ currentFrameDim' = NoDim
    /\ previewLoad' = PreviewEffect(<< >>, previewFrameIndex, chromaSettings, FALSE)
    /\ UNCHANGED << duration, fps, isExtracting, chromaSettings, sheetSettings,
                    previewFrameIndex, draggedIdx, isGenerating, previewCanvas,
                    sheetCanvas, ex, exTimers, gen, reported, uuidEpoch, isPlaying >>

\* handleLoadedMetadata, on the mounted element's loadedmetadata event
handleLoadedMetadata ==
    /\ Rendered
    /\ videoSrc # 0
    /\ ~video[videoSrc].ready
    /\ video' = [video EXCEPT ![videoSrc].ready = TRUE]
    /\ duration' = video[videoSrc].dur
    /\ endTime' = video[videoSrc].dur
    /\ UNCHANGED << videoSrc, startTime, fps, isExtracting, progress, frames,
                    chromaSettings, sheetSettings, previewFrameIndex, draggedIdx,
                    showSheetPreview, generatedSheetUrl, isGenerating, currentFrameDim,
                    previewCanvas, previewLoad, sheetCanvas, ex, exTimers, gen,
                    reported, uuidEpoch, isPlaying >>

\* the remove-video button; the <video> element leaves the document, which
\* pauses it
RemoveVideo ==
    /\ Rendered
    /\ videoSrc # 0
    /\ videoSrc' = 0
    /\ video' = [video EXCEPT ![videoSrc].paused = TRUE]
    /\ frames' = << >>
    /\ progress' = 0
    /\ previewLoad' = PreviewEffect(<< >>, previewFrameIndex, chromaSettings, showSheetPreview)
    /\ UNCHANGED << duration, startTime, endTime, fps, isExtracting, chromaSettings,
                    sheetSettings, previewFrameIndex, draggedIdx, showSheetPreview,
                    generatedSheetUrl, isGenerating, currentFrameDim,
                    previewCanvas, sheetCanvas, ex, exTimers, gen, reported, uuidEpoch, isPlaying >>

TrimUnchanged ==
    UNCHANGED << videoSrc, duration, isExtracting, progress, frames, chromaSettings,
                 sheetSettings, previewFrameIndex, draggedIdx, showSheetPreview,
                 generatedSheetUrl, isGenerating, currentFrameDim, video, previewCanvas,
                 previewLoad, sheetCanvas, ex, exTimers, gen, reported, uuidEpoch, isPlaying >>

\* The slider positions: min 0, max duration, step 0.1 s.
SliderStep == TicksPerSec \div 10

\* the start-time slider
SetStartTime(values) ==
    /\ Step2Shown
    /\ \E val \in values :
          /\ val % SliderStep = 0 /\ val <= duration
          /\ val < endTime
          /\ startTime' = val
    /\ UNCHANGED << endTime, fps >>
    /\ TrimUnchanged

\* the end-time slider
SetEndTime(values) ==
    /\ Step2Shown
    /\ \E val \in values :
          /\ val % SliderStep = 0 /\ val <= duration
          /\ val > startTime
          /\ endTime' = val
    /\ UNCHANGED << startTime, fps >>
    /\ TrimUnchanged

FpsOptions == {5, 10, 15, 24, 30}

\* the FPS buttons
SetFps(options) ==
    /\ Step2Shown
    /\ \E f \in options \cap FpsOptions : fps' = f
    /\ UNCHANGED << startTime, endTime >>
    /\ TrimUnchanged

-----------------------------------------------------------------------------
(* Playback: togglePlay, handleTimeUpdate, onEnded *)

PlayUnchanged ==
    UNCHANGED << videoSrc, duration, startTime, endTime, fps, isExtracting, progress,
                 frames, chromaSettings, sheetSettings, previewFrameIndex, draggedIdx,
                 showSheetPreview, generatedSheetUrl, isGenerating, currentFrameDim,
                 previewCanvas, previewLoad, sheetCanvas, ex, exTimers, gen, reported,
                 uuidEpoch >>

\* The play / pause button of step 2.  play() on an element that has reached
\* its end first seeks to the start.
togglePlay ==
    /\ Step2Shown
    /\ LET el == video[videoSrc]
           toggled == [video EXCEPT ![videoSrc].paused = isPlaying]
       IN  video' = IF ~isPlaying /\ el.ready /\ el.time = el.dur
                    THEN Seek(toggled, videoSrc, 0)
                    ELSE toggled
    /\ isPlaying' = ~isPlaying
    /\ PlayUnchanged

\* The mounted element plays on to position t and fires timeupdate:
\* handleTimeUpdate seeks back to startTime at the end of the trim range; at
\* the end of the clip onEnded follows.
Playback(positions) ==
    /\ Rendered
    /\ videoSrc # 0
    /\ LET el == video[videoSrc]
       IN  /\ el.ready /\ ~el.paused /\ el.seeking = -1
           /\ \E t \in positions :
                 /\ el.time < t /\ t <= el.dur
                 /\ LET moved == [video EXCEPT ![videoSrc].time = t]
                    IN  video' = IF t >= endTime /\ isPlaying
                                 THEN Seek(moved, videoSrc, startTime)
                                 ELSE moved
                 /\ isPlaying' = IF t = el.dur THEN FALSE ELSE isPlaying
    /\ PlayUnchanged

-----------------------------------------------------------------------------
(* Frame extraction: extractFrames *)

NewFrameUnstamped(id, t, img) ==
    [id |-> id, timestamp |-> 0, originalDataUrl |-> img, selected |-> TRUE]

\* extracted.push({ id, timestamp, originalDataUrl, selected: true })
NewFrame(id, t, img) ==
    [id |-> id, timestamp |-> t, originalDataUrl |-> img, selected |-> TRUE]

\* crypto.randomUUID(): the k-th frame of the n-th extraction
Uuid(n, k) == n * 1000 + k

\* Math.round(((cursor - startTime) / totalDuration) * 100), capped at 100
Percent(e) ==
    LET totalDuration == Max(SliderStep, e.endTime - e.startTime)
    IN  Min(100, RoundDiv((e.cursor - e.startTime) * 100, totalDuration))

\* The head of the while loop with locals e and elements v: either the next
\* seek and its await, or the code after the loop.  capped: the loop was left
\* by the safety break.
ExtractLoop(e, v, capped) ==
    IF ~capped /\ e.cursor <= e.endTime
    THEN /\ ex' = [e EXCEPT !.pc = "await"]
         /\ video' = SeekFor(v, e.vid, e.cursor, e.call)
         /\ UNCHANGED << frames, previewFrameIndex, exTimers, previewLoad >>
    ELSE /\ ex' = [e EXCEPT !.pc = "idle"]
         /\ frames' = e.extracted
         /\ previewFrameIndex' = 0
         /\ exTimers' = exTimers + 1
         /\ video' = Seek(v, e.vid, e.startTime)
         /\ previewLoad' = PreviewEffect(e.extracted, 0, chromaSettings, showSheetPreview)

\* The click on the extract button, up to the first await.  The button is in
\* step 2 of the page and disabled while isExtracting.
ExtractClick ==
    /\ Step2Shown
    /\ ~isExtracting
    /\ uuidEpoch < MaxExtractions
    /\ isExtracting' = TRUE
    /\ progress' = 0
    /\ showSheetPreview' = FALSE
    /\ uuidEpoch' = uuidEpoch + 1
    /\ isPlaying' = FALSE
    /\ LET e == [pc |-> "await", call |-> uuidEpoch + 1, vid |-> videoSrc,
                 startTime |-> startTime, endTime |-> endTime,
                 interval |-> TicksPerSec \div fps,
                 cursor |-> startTime, extracted |-> << >>]
           paused == [video EXCEPT ![videoSrc].paused = TRUE]
       IN  IF e.cursor <= e.endTime
           THEN /\ ex' = e
                /\ video' = SeekFor(paused, e.vid, e.cursor, e.call)
                /\ frames' = << >>
                /\ previewLoad' = PreviewEffect(<< >>, previewFrameIndex, chromaSettings, FALSE)
                /\ UNCHANGED << previewFrameIndex, exTimers >>
           ELSE ExtractLoop(e, paused, FALSE)
    /\ reported' = reported
    /\ UNCHANGED << videoSrc, duration, startTime, endTime, fps, chromaSettings,
                    sheetSettings, draggedIdx, generatedSheetUrl, isGenerating,
                    currentFrameDim, previewCanvas, sheetCanvas, gen >>

\* The running seek of element e completes: the element shows the new position
\* and queues a seeked event.
SeekComplete ==
    \E e \in DOMAIN video :
        /\ video[e].seeking # -1
        /\ Len(video[e].queued) < MaxQueued
        /\ video' = [video EXCEPT ![e].time = video[e].seeking,
                                  ![e].seeking = -1,
                                  ![e].queued = Append(@, [by |-> video[e].seekBy,
                                                           to |-> video[e].seeking])]
        /\ UNCHANGED << videoSrc, duration, startTime, endTime, fps, isExtracting,
                        progress, frames, chromaSettings, sheetSettings,
                        previewFrameIndex, draggedIdx, showSheetPreview,
                        generatedSheetUrl, isGenerating, currentFrameDim,
                        previewCanvas, previewLoad, sheetCanvas, ex, exTimers, gen,
                        reported, uuidEpoch, isPlaying >>

\* A seeked event of element e is dispatched.  If extractFrames awaits on e, its
\* onSeek listener resolves the promise and the loop body runs to the next
\* await or to the end of the function.
SeekedDispatch ==
    \E e \in DOMAIN video :
        /\ Len(video[e].queued) > 0
        /\ LET v == [video EXCEPT ![e].queued = Tail(@)]
           IN  IF ex.pc = "await" /\ ex.vid = e
               THEN LET frame == NewFrame(Uuid(uuidEpoch, Len(ex.extracted) + 1),
                                          ex.cursor, ClipPicture(video[e]))
                        pushed == [ex EXCEPT !.extracted = Append(@, frame)]
                        capped == Len(pushed.extracted) > MaxFrames
                    IN  /\ ExtractLoop([pushed EXCEPT !.cursor = @ + ex.interval],
                                       v, capped)
                        /\ progress' = IF capped \/ pushed.cursor + ex.interval > ex.endTime
                                       THEN 100 ELSE Percent(pushed)
                        /\ reported' = IF capped THEN "alert: frame cap reached"
                                       ELSE reported
               ELSE /\ video' = v
                    /\ UNCHANGED << progress, frames, previewFrameIndex, exTimers,
                                    previewLoad, ex, reported >>
        /\ UNCHANGED << videoSrc, duration, startTime, endTime, fps, isExtracting,
                        chromaSettings, sheetSettings, draggedIdx, showSheetPreview,
                        generatedSheetUrl, isGenerating, currentFrameDim,
                        previewCanvas, sheetCanvas, gen, uuidEpoch, isPlaying >>

\* The running seek of element e fails in the decoder: no seeked event follows.
SeekFault ==
    \E e \in DOMAIN video :
        /\ video[e].seeking # -1
        /\ video' = [video EXCEPT ![e].seeking = -1]
        /\ UNCHANGED << videoSrc, duration, startTime, endTime, fps, isExtracting,
                        progress, frames, chromaSettings, sheetSettings,
                        previewFrameIndex, draggedIdx, showSheetPreview,
                        generatedSheetUrl, isGenerating, currentFrameDim,
                        previewCanvas, previewLoad, sheetCanvas, ex, exTimers, gen,
                        reported, uuidEpoch, isPlaying >>

\* setTimeout(() => setIsExtracting(false), 500) fires
ExtractTimerFires ==
    /\ exTimers > 0
    /\ exTimers' = exTimers - 1
    /\ isExtracting' = FALSE
    /\ UNCHANGED << videoSrc, duration, startTime, endTime, fps, progress, frames,
                    chromaSettings, sheetSettings, previewFrameIndex, draggedIdx,
                    showSheetPreview, generatedSheetUrl, isGenerating, currentFrameDim,
                    video, previewCanvas, previewLoad, sheetCanvas, ex, gen, reported,
                    uuidEpoch, isPlaying >>

-----------------------------------------------------------------------------
(* Frame list handlers.  The tiles are part of step 3 of the page. *)

FramesUnchanged ==
    UNCHANGED << videoSrc, duration, startTime, endTime, fps, isExtracting, progress,
                 chromaSettings, sheetSettings, showSheetPreview, generatedSheetUrl,
                 isGenerating, currentFrameDim, video, previewCanvas, sheetCanvas, ex,
                 exTimers, gen, reported, uuidEpoch, isPlaying >>

\* setFrames(f), setPreviewFrameIndex(idx), setDraggedIdx(d) of one handler,
\* followed by the preview effect when frames or previewFrameIndex changed
SetFrames(f, idx, d) ==
    /\ frames' = f
    /\ previewFrameIndex' = idx
    /\ draggedIdx' = d
    /\ previewLoad' = IF f = frames /\ idx = previewFrameIndex THEN previewLoad
                      ELSE PreviewEffect(f, idx, chromaSettings, showSheetPreview)
    /\ FramesUnchanged

ToggleSelectUpTo ==
    /\ Step3Shown
    /\ \E idx \in 0 .. Len(frames) - 1 :
          SetFrames([i \in DOMAIN frames |->
                        IF i <= idx + 1 THEN [frames[i] EXCEPT !.selected = ~@]
                        ELSE frames[i]],
                    previewFrameIndex, draggedIdx)

\* onClick of a tile: newFrames[idx].selected = !newFrames[idx].selected
ToggleSelect ==
    /\ Step3Shown
    /\ \E idx \in 0 .. Len(frames) - 1 :
          SetFrames([frames EXCEPT ![idx + 1].selected = ~@], previewFrameIndex, draggedIdx)

\* the select-all and deselect-all buttons
SelectAll(selected) ==
    /\ Step3Shown
    /\ SetFrames([i \in DOMAIN frames |-> [frames[i] EXCEPT !.selected = selected]],
                 previewFrameIndex, draggedIdx)

\* onClick of a tile's preview area
PreviewSelect ==
    /\ Step3Shown
    /\ \E idx \in 0 .. Len(frames) - 1 :
          /\ idx # previewFrameIndex
          /\ SetFrames(frames, idx, draggedIdx)

handleDragStart ==
    /\ Step3Shown
    /\ \E index \in 0 .. Len(frames) - 1 :
          /\ index # draggedIdx
          /\ SetFrames(frames, previewFrameIndex, index)

\* array.splice(at, 1): the array without the element at index at, if any
SpliceOut(f, at) ==
    IF at < Len(f) THEN SubSeq(f, 1, at) \o SubSeq(f, at + 2, Len(f)) ELSE f

\* array.splice(at, 0, item)
SpliceIn(f, at, item) ==
    LET k == Min(at, Len(f))
    IN  SubSeq(f, 1, k) \o << item >> \o SubSeq(f, k + 1, Len(f))

\* What splice(draggedIdx, 1) returns when draggedIdx is past the end: nothing,
\* so that draggedItem is undefined.
UndefinedFrame ==
    [id |-> -1, timestamp |-> -1, originalDataUrl |-> BlankCanvas(0, 0),
     selected |-> FALSE]

handleDrop ==
    /\ Step3Shown
    /\ draggedIdx # NoDrag
    /\ \E dropIndex \in 0 .. Len(frames) - 1 :
          LET draggedItem == IF draggedIdx < Len(frames) THEN frames[draggedIdx + 1]
                             ELSE UndefinedFrame
              newFrames == SpliceIn(SpliceOut(frames, draggedIdx), dropIndex, draggedItem)
          IN  SetFrames(newFrames,
                        IF previewFrameIndex = draggedIdx THEN dropIndex
                        ELSE previewFrameIndex,
                        NoDrag)

\* removeFrame without its adjustment of previewFrameIndex.
removeFrameKeepIndex ==
    /\ Step3Shown
    /\ \E i \in DOMAIN frames :
          SetFrames(SelectSeq(frames, LAMBDA f : f.id # frames[i].id),
                    previewFrameIndex, draggedIdx)

removeFrame ==
    /\ Step3Shown
    /\ \E i \in DOMAIN frames :
          SetFrames(SelectSeq(frames, LAMBDA f : f.id # frames[i].id),
                    IF previewFrameIndex >= Len(frames) - 1
                    THEN Max(0, Len(frames) - 2) ELSE previewFrameIndex,
                    draggedIdx)

-----------------------------------------------------------------------------
(* SpecCap: one long and one short clip, trimmed and extracted at the       *)
(* lowest and the highest rate, from the state after construction.          *)

CapDuration == 840          \* 7 s
ShortDuration == 30         \* 0.25 s

CapClips == {Clip(CapDuration, 1), Clip(ShortDuration, 2)}
CapStops == {0, SliderStep, CapDuration}
CapRates == {5, 30}

NextCap ==
    \/ handleFileChange(CapClips)
    \/ handleLoadedMetadata
    \/ SetStartTime(CapStops)
    \/ SetEndTime(CapStops)
    \/ SetFps(CapRates)
    \/ ExtractClick
    \/ SeekComplete
    \/ SeekedDispatch
    \/ ExtractTimerFires
    \/ PreviewOnload

SpecCap == Init /\ [][NextCap]_vars

-----------------------------------------------------------------------------
(* SpecLayout: a clip of three frames is extracted, frames are toggled and  *)
(* the sheet settings are typed while no generation runs, then the sheet is *)
(* generated.  The preview image loads, which write the preview canvas      *)
(* only, are left pending.                                                  *)

SheetDuration == 24         \* 0.2 s: three frames at the default 10 fps

SheetClips == {Clip(SheetDuration, 1)}
LayoutScales == {100}
LayoutWidths == {<< >>, <<3>>}
LayoutHeights == {<<2>>}
LayoutColumns == {<<0>>, <<2>>}
LayoutPaddings == {<<0>>, <<1>>}

ExtractSteps ==
    \/ handleFileChange(SheetClips)
    \/ handleLoadedMetadata
    \/ (gen.pc = "idle" /\ ExtractClick)
    \/ SeekComplete
    \/ SeekedDispatch
    \/ ExtractTimerFires

GenerateSteps ==
    \/ GenerateClick
    \/ GenFirstLoaded
    \/ GenFrameLoaded

NextLayout ==
    \/ ExtractSteps
    \/ (gen.pc = "idle" /\ ToggleSelect)
    \/ (gen.pc = "idle" /\ SetOutputMode)
    \/ (gen.pc = "idle" /\ SetScale(LayoutScales))
    \/ (gen.pc = "idle" /\ SetCustomWidth(LayoutWidths))
    \/ (gen.pc = "idle" /\ SetCustomHeight(LayoutHeights))
    \/ (gen.pc = "idle" /\ SetColumns(LayoutColumns))
    \/ (gen.pc = "idle" /\ SetPadding(LayoutPaddings))
    \/ GenerateSteps

SpecLayout == Init /\ [][NextLayout]_vars

-----------------------------------------------------------------------------
(* SpecOrder: the three frames are toggled, reordered and removed while no *)
(* generation runs, then the sheet is generated in two or five columns.    *)

OrderColumns == {<<2>>}

NextOrder ==
    \/ ExtractSteps
    \/ (gen.pc = "idle" /\ ToggleSelect)
    \/ (gen.pc = "idle" /\ \E b \in BOOLEAN : SelectAll(b))
    \/ (gen.pc = "idle" /\ handleDragStart)
    \/ (gen.pc = "idle" /\ handleDrop)
    \/ (gen.pc = "idle" /\ removeFrame)
    \/ (gen.pc = "idle" /\ SetColumns(OrderColumns))
    \/ GenerateSteps

SpecOrder == Init /\ [][NextOrder]_vars

-----------------------------------------------------------------------------
(* SpecPreview: the three frames of an extraction are previewed, dragged,   *)
(* dropped and removed, and extracted again.                                 *)

NextPreview ==
    \/ ExtractSteps
    \/ PreviewSelect
    \/ handleDragStart
    \/ handleDrop
    \/ removeFrame

SpecPreview == Init /\ [][NextPreview]_vars

-----------------------------------------------------------------------------
(* Spec: the page from construction: a short clip is loaded, extracted,    *)
(* previewed, keyed, selected and generated, every handler free to run     *)
(* between the steps of an extraction and of a generation.                 *)

SmallDuration == 12         \* 0.1 s: two frames at the default 10 fps

SmallClips == {Clip(SmallDuration, 1)}

Next ==
    \/ handleFileChange(SmallClips)
    \/ handleLoadedMetadata
    \/ ExtractClick
    \/ SeekComplete
    \/ SeekedDispatch
    \/ ExtractTimerFires
    \/ PreviewOnload
    \/ (\E b \in BOOLEAN : SelectAll(b))
    \/ PreviewSelect
    \/ SetChromaEnabled
    \/ GenerateClick
    \/ GenFirstLoaded
    \/ GenFrameLoaded
    \/ BackToEdit

Spec == Init /\ [][Next]_vars

-----------------------------------------------------------------------------
(* FairSpec: extractions whose seeks may fail.  The element completes a     *)
(* running seek and the event loop dispatches queued events and timers.     *)

FaultDuration == 36         \* 0.3 s

FaultClips == {Clip(FaultDuration, 1)}
FaultStops == {SliderStep, FaultDuration}
FaultRates == {5, 30}

NextFair ==
    \/ handleFileChange(FaultClips)
    \/ handleLoadedMetadata
    \/ SetEndTime(FaultStops)
    \/ SetFps(FaultRates)
    \/ ExtractClick
    \/ SeekComplete
    \/ SeekFault
    \/ SeekedDispatch
    \/ ExtractTimerFires
    \/ PreviewOnload

FairSpec ==
    /\ Init
    /\ [][NextFair]_vars
    /\ WF_vars(handleLoadedMetadata)
    /\ WF_vars(SeekComplete)
    /\ WF_vars(SeekedDispatch)
    /\ WF_vars(ExtractTimerFires)
    /\ WF_vars(PreviewOnload)

-----------------------------------------------------------------------------
(* SpecSelect: the three frames are toggled, selected and deselected before, *)
(* during and after generations, the user going back from the sheet to the  *)
(* frame list.                                                              *)

NextSelect ==
    \/ ExtractSteps
    \/ ToggleSelect
    \/ (\E b \in BOOLEAN : SelectAll(b))
    \/ GenerateSteps
    \/ BackToEdit

SpecSelect == Init /\ [][NextSelect]_vars

-----------------------------------------------------------------------------
(* SpecPlay: a clip is loaded, played, trimmed, removed and extracted.      *)

PlayDuration == 24          \* 0.2 s

PlayClips == {Clip(PlayDuration, 1)}
PlayStops == {0, SliderStep}
PlayPositions == {SliderStep, PlayDuration}

NextPlay ==
    \/ handleFileChange(PlayClips)
    \/ handleLoadedMetadata
    \/ RemoveVideo
    \/ togglePlay
    \/ Playback(PlayPositions)
    \/ SetStartTime(PlayStops)
    \/ ExtractClick
    \/ SeekComplete
    \/ SeekedDispatch
    \/ ExtractTimerFires

SpecPlay == Init /\ [][NextPlay]_vars

-----------------------------------------------------------------------------
(* LiveSpec: extractions and generations whose seeks complete and whose     *)
(* image loads settle.  The element reports its metadata and completes      *)
(* every seek, the event loop dispatches events and timers, and every image *)
(* load either succeeds or fails.                                           *)

LiveDuration == 12          \* 0.1 s

LiveClips == {Clip(LiveDuration, 1)}
LiveRates == {5, 30}

NextLive ==
    \/ handleFileChange(LiveClips)
    \/ handleLoadedMetadata
    \/ SetFps(LiveRates)
    \/ ExtractClick
    \/ SeekComplete
    \/ SeekedDispatch
    \/ ExtractTimerFires
    \/ (\E b \in BOOLEAN : SelectAll(b))
    \/ GenerateSteps
    \/ GenLoadFailed
    \/ BackToEdit

LiveSpec ==
    /\ Init
    /\ [][NextLive]_vars
    /\ WF_vars(handleLoadedMetadata)
    /\ WF_vars(SeekComplete)
    /\ WF_vars(SeekedDispatch)
    /\ WF_vars(ExtractTimerFires)
    /\ WF_vars(GenFirstLoaded \/ GenFrameLoaded \/ GenLoadFailed)

-----------------------------------------------------------------------------
(* SpecChroma: processFrame over sampled pixels and settings.  The state    *)
(* is the one after an extraction has published two frames of any content, *)
(* with chroma settings the panel can be set to; the preview and a         *)
(* generation then run processFrame on them.                               *)

Green == <<0, 0, 15, 15, 0, 0>>     \* #00ff00
Blue == <<0, 0, 0, 0, 15, 15>>      \* #0000ff

TestChroma ==
    [enabled : BOOLEAN, color : {Green, Blue}, similarity : {0, 25, 50, 100},
     smoothness : {0, 10, 100}, spill : {10}]

InitChroma ==
    /\ videoSrc = 1
    /\ duration = 12
    /\ startTime = 0
    /\ endTime = 12
    /\ fps = 10
    /\ isExtracting = FALSE
    /\ progress = 100
    /\ \E k1 \in DOMAIN Palette, k2 \in DOMAIN Palette :
          frames = << NewFrame(1, 0, Picture(k1)), NewFrame(2, 12, Picture(k2)) >>
    /\ chromaSettings \in TestChroma
    /\ sheetSettings = DefaultSheet
    /\ previewFrameIndex = 0
    /\ draggedIdx = NoDrag
    /\ showSheetPreview = FALSE
    /\ generatedSheetUrl = NoSheet
    /\ isGenerating = FALSE
    /\ currentFrameDim = NoDim
    /\ video = [e \in 1..MaxLoads |->
                  IF e = 1 THEN [NoVideo EXCEPT !.ready = TRUE, !.dur = 12] ELSE NoVideo]
    /\ previewCanvas = BlankCanvas(0, 0)
    /\ previewLoad = [img |-> frames[1].originalDataUrl, settings |-> chromaSettings]
    /\ sheetCanvas = NewSheetCanvas
    /\ ex = ExIdle
    /\ exTimers = 0
    /\ gen = GenIdle
    /\ reported = "none"
    /\ uuidEpoch = 1
    /\ isPlaying = FALSE

NextChroma ==
    \/ PreviewOnload
    \/ GenerateClick
    \/ GenFirstLoaded
    \/ GenFrameLoaded

SpecChroma == InitChroma /\ [][NextChroma]_vars

-----------------------------------------------------------------------------
(* Properties of the chroma key (checked under SpecChroma, where frames and *)
(* chromaSettings do not change, so every processFrame call was made on a  *)
(* picture of frames with the current chromaSettings).                     *)

PixelIndex == 1..(VideoW * VideoH)

\* The pairs <<input picture, output buffer>> of the processFrame calls whose
\* output the state still holds: one per cell drawn on the sheet, and the
\* preview.
ProcessedPairs ==
    { << frames[k].originalDataUrl.data, sheetCanvas.ops[k].data >> :
          k \in DOMAIN sheetCanvas.ops }
    \cup (IF currentFrameDim # NoDim
          THEN { << frames[previewFrameIndex + 1].originalDataUrl.data,
                    previewCanvas.data >> }
          ELSE {})

\* The claimed output q for input pixel p: dist, threshold = similarity * 442
\* and smoothRange = smoothness * 100 compared as rationals
\* (similarity and smoothness are in hundredths).
ClaimedKeyedPixel(p, q, settings) ==
    LET key == hexToRgb(settings.color)
        d2 == SqDist(p, key)
        k == settings.similarity
        m == settings.smoothness
        below == 2500 * d2 < (221 * k) * (221 * k)
        inBand == ~below /\ 2500 * d2 < (221 * k + 50 * m) * (221 * k + 50 * m)
        \* a <= 255 * (dist - threshold) / smoothRange
        AtLeast(a) == SqrtGeq(2550, d2, 10 * m * a + 11271 * k)
    IN  /\ q[1] = p[1] /\ q[2] = p[2] /\ q[3] = p[3]
        /\ below => q[4] = 0
        /\ inBand => q[4] \in 0..255 /\ AtLeast(q[4]) /\ ~AtLeast(q[4] + 1)
        /\ ~below /\ ~inBand => q[4] = p[4]
        /\ (p[1] = key[1] /\ p[2] = key[2] /\ p[3] = key[3] /\ k > 0) => q[4] = 0

\* C1: with chroma key enabled, every output pixel keeps R, G, B and has
\* alpha 0 below the threshold, floor(255 * (dist - threshold) / smoothRange)
\* inside the smoothing band, and the input alpha above it; a pixel of the key
\* colour gets alpha 0 whenever similarity > 0.
C1_ChromaAlpha ==
    chromaSettings.enabled =>
        \A pair \in ProcessedPairs : \A j \in PixelIndex :
            ClaimedKeyedPixel(pair[1][j], pair[2][j], chromaSettings)

\* A generation has keyed an opaque pixel to an alpha strictly inside the ramp,
\* another to 0, and left a third as it was.
C1_Witness ==
    /\ chromaSettings.enabled
    /\ generatedSheetUrl # NoSheet
    /\ \E pair \in ProcessedPairs : \E j \in PixelIndex :
          pair[1][j][4] = 255 /\ pair[2][j][4] \in 1..254
    /\ \E pair \in ProcessedPairs : \E j \in PixelIndex :
          pair[1][j][4] = 255 /\ pair[2][j][4] = 0
    /\ \E pair \in ProcessedPairs : \E j \in PixelIndex :
          pair[1][j][4] = 255 /\ pair[2][j][4] = 255

\* C10: with chroma key disabled, the buffer processFrame leaves is
\* byte-identical to its input, whatever the canvas held from earlier calls,
\* and processFrame applied to that output (on any canvas the state holds)
\* leaves the same bytes again.
C10_DisabledIsCopy ==
    ~chromaSettings.enabled =>
        \A pair \in ProcessedPairs :
            /\ pair[2] = pair[1]
            /\ \A canvas \in {gen.offCanvas, previewCanvas, BlankCanvas(VideoW, VideoH)} :
                  Len(canvas.data) = Len(pair[2]) =>
                      processFrame(canvas,
                                   [width |-> VideoW, height |-> VideoH, data |-> pair[2]],
                                   chromaSettings).data = pair[2]

\* A generation with chroma key disabled has drawn a second frame with a
\* semi-transparent pixel on the offscreen canvas that still held the first.
C10_Witness ==
    /\ ~chromaSettings.enabled
    /\ Len(sheetCanvas.ops) = 2
    /\ sheetCanvas.ops[1].data # sheetCanvas.ops[2].data
    /\ \E j \in PixelIndex :
          /\ sheetCanvas.ops[2].data[j][4] \in 1..254
          /\ sheetCanvas.ops[1].data[j][4] > 0

\* The pixels processFrame has keyed, each with its output: << p, q >>.
KeyedPixels ==
    { << pair[1][j], pair[2][j] >> : pair \in ProcessedPairs, j \in PixelIndex }

\* threshold <= dist(p, key) < threshold + smoothRange
InBand(p, settings) ==
    LET d2 == SqDist(p, hexToRgb(settings.color))
        k == settings.similarity
        m == settings.smoothness
    IN  /\ 2500 * d2 >= (221 * k) * (221 * k)
        /\ 2500 * d2 < (221 * k + 50 * m) * (221 * k + 50 * m)

\* C14: inside the smoothing band the output alpha lies in 0..255 and does
\* not decrease as the distance to the key colour grows.
C14_RampMonotone ==
    chromaSettings.enabled =>
        \A a \in KeyedPixels : \A b \in KeyedPixels :
            LET key == hexToRgb(chromaSettings.color)
            IN  (/\ InBand(a[1], chromaSettings)
                 /\ InBand(b[1], chromaSettings)
                 /\ SqDist(a[1], key) <= SqDist(b[1], key))
                => /\ a[2][4] \in 0..255
                   /\ b[2][4] \in 0..255
                   /\ a[2][4] <= b[2][4]

\* Two keyed pixels inside the band, the farther one strictly more opaque.
C14_Witness ==
    /\ chromaSettings.enabled
    /\ \E a \in KeyedPixels : \E b \in KeyedPixels :
          /\ InBand(a[1], chromaSettings)
          /\ InBand(b[1], chromaSettings)
          /\ SqDist(a[1], hexToRgb(chromaSettings.color)) <
                SqDist(b[1], hexToRgb(chromaSettings.color))
          /\ 0 < a[2][4] /\ a[2][4] < b[2][4]

-----------------------------------------------------------------------------
(* Properties of extractFrames *)

\* The arguments of the last call of extractFrames were valid for the clip.
ValidRange(e) ==
    /\ e.vid # 0
    /\ 0 <= e.startTime
    /\ e.startTime < e.endTime
    /\ e.endTime <= video[e.vid].dur
    /\ e.interval > 0

\* The last call of extractFrames has returned and its frames are the collection.
Published == uuidEpoch > 0 /\ ex.pc = "idle" /\ frames = ex.extracted

\* C2: an extraction with valid arguments whose seeks all complete leaves
\* min(floor((endTime - startTime) * fps) + 1, 200) frames in the collection,
\* never more than 200.
C2_FrameCount ==
    (Published /\ ValidRange(ex)) =>
        /\ Len(frames) = Min(((ex.endTime - ex.startTime) \div ex.interval) + 1, MaxFrames)
        /\ Len(frames) <= MaxFrames

\* C13: the frames of one extraction are in capture order, the k-th (from 0)
\* stamped startTime + k / fps, so strictly increasing, every stamp within
\* [startTime, endTime], and every frame created selected.
C13_Timestamps ==
    LET f == ex.extracted
    IN  /\ \A k \in DOMAIN f :
              /\ f[k].timestamp = ex.startTime + ((k - 1) * ex.interval)
              /\ f[k].timestamp >= ex.startTime
              /\ f[k].timestamp <= ex.endTime
              /\ f[k].selected
        /\ \A k \in DOMAIN f : \A m \in DOMAIN f :
              k < m => f[k].timestamp < f[m].timestamp /\ f[k].id < f[m].id

\* An extraction from a start after 0 has published at least three frames.
C13_Witness ==
    /\ Published
    /\ ex.startTime > 0
    /\ Len(frames) >= 3
    /\ frames[3].timestamp > frames[2].timestamp

-----------------------------------------------------------------------------
(* Properties of generateSpriteSheet *)

\* The sheet canvas has been sized by a generation that runs or has finished.
SheetSized == gen.pc = "frame" \/ generatedSheetUrl # NoSheet

\* C3: for n selected frames, cols columns, padding p and cells of w x h the
\* sheet has ceil(n / cols) rows, is cols * w + (cols - 1) * p wide and
\* rows * h + (rows - 1) * p high.
C3_SheetGeometry ==
    SheetSized =>
        LET n == Cardinality({i \in DOMAIN frames : frames[i].selected})
            cols == sheetSettings.columns
            p == sheetSettings.padding
            w == gen.targetW
            h == gen.targetH
            rows == CHOOSE r \in 0 .. n : r * cols >= n /\ (r - 1) * cols < n
        IN  /\ sheetCanvas.width = (cols * w) + ((cols - 1) * p)
            /\ sheetCanvas.height = (rows * h) + ((rows - 1) * p)
            /\ generatedSheetUrl # NoSheet =>
                  /\ generatedSheetUrl.width = sheetCanvas.width
                  /\ generatedSheetUrl.height = sheetCanvas.height

\* A sheet of three cells of 3 x 2 in two columns and two rows, one pixel apart.
C3_Witness ==
    /\ generatedSheetUrl # NoSheet
    /\ Len(sheetCanvas.ops) = 3
    /\ sheetSettings.columns = 2
    /\ sheetSettings.padding = 1
    /\ gen.targetW = 3 /\ gen.targetH = 2
    /\ generatedSheetUrl.width = 7 /\ generatedSheetUrl.height = 5

\* C4: the sheet holds exactly the selected frames of the collection, in the
\* collection's order, the i-th (from 0) drawn keyed at
\* x = (i mod cols) * (w + p), y = (i div cols) * (h + p) in a cell of w x h.
C4_CellsInOrder ==
    SheetSized =>
        LET sel == SelectedFrames(frames)
            ops == sheetCanvas.ops
            cols == sheetSettings.columns
            p == sheetSettings.padding
        IN  /\ Len(ops) <= Len(sel)
            /\ generatedSheetUrl # NoSheet =>
                  Len(ops) = Len(sel) /\ generatedSheetUrl.ops = ops
            /\ \A k \in DOMAIN ops :
                  LET img == sel[k].originalDataUrl
                  IN  /\ ops[k].frameId = sel[k].id
                      /\ ops[k].data =
                            processFrame(BlankCanvas(img.width, img.height), img,
                                         chromaSettings).data
                      /\ ops[k].x = ((k - 1) % cols) * (gen.targetW + p)
                      /\ ops[k].y = ((k - 1) \div cols) * (gen.targetH + p)
                      /\ ops[k].w = gen.targetW /\ ops[k].h = gen.targetH

\* A sheet of two rows drawn from three frames after a reorder.
C4_Witness ==
    /\ generatedSheetUrl # NoSheet
    /\ Len(generatedSheetUrl.ops) = 3
    /\ sheetSettings.columns = 2
    /\ generatedSheetUrl.ops[1].frameId > generatedSheetUrl.ops[3].frameId
    /\ generatedSheetUrl.ops[3].y > 0

\* The layout a generation computed is one the specification accepts.
ValidLayout(g) ==
    /\ g.sheetSettings.columns >= 1
    /\ g.sheetSettings.padding >= 0
    /\ g.targetW > 0
    /\ g.targetH > 0

\* C6: a generation whose layout has columns < 1, padding < 0 or a cell width
\* or height that is not positive fails and produces no sheet.
C6_InvalidLayoutRejected ==
    generatedSheetUrl # NoSheet => ValidLayout(gen)

\* C5: a click on generate with no frame selected reports the empty selection
\* and leaves the collection, the sheet canvas and the sheet generated before
\* as they were, with no generation in flight.
C5_EmptySelectionLeavesState ==
    [][(GenerateClick /\ Len(SelectedFrames(frames)) = 0) =>
          /\ reported' = "alert: no frame selected"
          /\ ~isGenerating' /\ gen'.pc = "idle"
          /\ frames' = frames
          /\ sheetCanvas' = sheetCanvas
          /\ generatedSheetUrl' = generatedSheetUrl]_vars

\* C9: the preview and the steps of a generation leave the collection as it
\* was: every frame's id, timestamp, pixels, selected flag and position.
C9_FramesUntouched ==
    [][(PreviewOnload \/ GenerateClick \/ GenFirstLoaded \/ GenFrameLoaded) =>
          frames' = frames]_vars

\* The keyed preview of a frame and a keyed sheet of it exist, both different
\* from the frame's captured pixels.
C9_Witness ==
    /\ generatedSheetUrl # NoSheet
    /\ Len(frames) > previewFrameIndex
    /\ previewLoad = NoLoad
    /\ previewCanvas.width = VideoW
    /\ previewCanvas.data # frames[previewFrameIndex + 1].originalDataUrl.data
    /\ \E k \in DOMAIN generatedSheetUrl.ops : \E i \in DOMAIN frames :
          /\ generatedSheetUrl.ops[k].frameId = frames[i].id
          /\ generatedSheetUrl.ops[k].data # frames[i].originalDataUrl.data

-----------------------------------------------------------------------------
(* Properties of extractFrames: error handling *)

\* C7: a call of extractFrames whose arguments are not valid (startTime >=
\* endTime, endTime > duration or fps <= 0, as right after a video is loaded)
\* reports InvalidRangeError at once, is not in flight and captures no frame.
C7_InvalidRangeRejected ==
    (uuidEpoch > 0 /\ ~ValidRange(ex)) =>
        /\ reported = "InvalidRangeError"
        /\ ex.pc = "idle"
        /\ ~isExtracting
        /\ Len(ex.extracted) = 0

\* extractFrames awaits the seeked event of a seek that has failed.
SeekStalled ==
    /\ ex.pc = "await"
    /\ video[ex.vid].ready
    /\ video[ex.vid].seeking = -1
    /\ video[ex.vid].queued = << >>

\* C8: when a seek of an extraction does not complete, the extraction is
\* eventually over and the frames captured before that seek are the collection.
C8_StalledSeekAborts ==
    SeekStalled ~> (ex.pc = "idle" /\ ~isExtracting /\ frames = ex.extracted)

-----------------------------------------------------------------------------
(* Properties of the frame list handlers *)

\* The frames of f other than the one with identifier id, in f's order.
Others(f, id) == SelectSeq(f, LAMBDA x : x.id # id)

\* C11: every drop the handler accepts leaves the collection a permutation of
\* itself: the dragged frame sits at some index of the result, unchanged, the
\* other frames keep their relative order and their fields, nothing is added
\* or lost, and the sheet and its canvas are not touched.
C11_DropPermutes ==
    [][handleDrop =>
          /\ draggedIdx < Len(frames)
          /\ Len(frames') = Len(frames)
          /\ \E j \in DOMAIN frames' : frames'[j] = frames[draggedIdx + 1]
          /\ Others(frames', frames[draggedIdx + 1].id) =
                Others(frames, frames[draggedIdx + 1].id)
          /\ generatedSheetUrl' = generatedSheetUrl
          /\ sheetCanvas' = sheetCanvas]_vars

\* Frames f and g are the same but for their selected flags.
SameButSelected(f, g) ==
    /\ Len(f) = Len(g)
    /\ \A i \in DOMAIN f :
          /\ f[i].id = g[i].id
          /\ f[i].timestamp = g[i].timestamp
          /\ f[i].originalDataUrl = g[i].originalDataUrl

\* C12: a toggle flips the selected flag of one frame and nothing else of the
\* collection; select-all and deselect-all change selected flags only; none
\* of them touches the generated sheet or its canvas.
C12_ToggleFlipsOne ==
    [][/\ ToggleSelect =>
             /\ SameButSelected(frames, frames')
             /\ Cardinality({i \in DOMAIN frames :
                                frames'[i].selected # frames[i].selected}) = 1
       /\ (\E b \in BOOLEAN : SelectAll(b)) =>
             /\ SameButSelected(frames, frames')
             /\ \E b \in BOOLEAN : \A i \in DOMAIN frames : frames'[i].selected = b
       /\ (ToggleSelect \/ \E b \in BOOLEAN : SelectAll(b)) =>
             /\ generatedSheetUrl' = generatedSheetUrl
             /\ sheetCanvas' = sheetCanvas]_vars

\* After a sheet was generated and the user went back, one of three frames
\* has been deselected; the sheet still holds all three.
C12_Witness ==
    /\ ~showSheetPreview
    /\ generatedSheetUrl # NoSheet
    /\ Len(generatedSheetUrl.ops) = 3
    /\ Len(frames) = 3
    /\ Cardinality({i \in DOMAIN frames : frames[i].selected}) = 2

\* An extraction or a generation has started and not yet returned.
InFlight == ex.pc # "idle" \/ gen.pc # "idle"

\* C15: while an extraction or a generation is in flight the collection is
\* changed by nothing but the extraction publishing its own frames.
C15_NoConcurrentMutation ==
    [][InFlight =>
          \/ frames' = frames
          \/ ex.pc # "idle" /\ gen.pc = "idle" /\ SeekedDispatch]_vars

\* C16: with columns >= 1, padding >= 0 and cells of at least 1 x 1, every
\* cell drawn lies inside the sheet and no two cells overlap.
C16_CellsDisjoint ==
    (SheetSized /\ ValidLayout(gen)) =>
        LET ops == sheetCanvas.ops
        IN  /\ \A k \in DOMAIN ops :
                  /\ ops[k].x >= 0 /\ ops[k].y >= 0
                  /\ ops[k].x + ops[k].w <= sheetCanvas.width
                  /\ ops[k].y + ops[k].h <= sheetCanvas.height
            /\ \A k \in DOMAIN ops : \A m \in DOMAIN ops :
                  k # m =>
                      \/ ops[k].x + ops[k].w <= ops[m].x
                      \/ ops[m].x + ops[m].w <= ops[k].x
                      \/ ops[k].y + ops[k].h <= ops[m].y
                      \/ ops[m].y + ops[m].h <= ops[k].y

\* Three cells in two columns with no padding between them.
C16_Witness ==
    /\ generatedSheetUrl # NoSheet
    /\ ValidLayout(gen)
    /\ Len(generatedSheetUrl.ops) = 3
    /\ gen.sheetSettings.columns = 2
    /\ gen.sheetSettings.padding = 0
    /\ generatedSheetUrl.ops[2].x = generatedSheetUrl.ops[1].w
    /\ generatedSheetUrl.ops[3].y = generatedSheetUrl.ops[1].h

-----------------------------------------------------------------------------
(* Properties of extractFrames: seeks *)

\* C17: the wait of extractFrames for the frame at cursor is released by the
\* seeked event of the seek it issued for that frame, and by no other, so that
\* the frame is captured after its own seek has completed.
C17_OwnSeekReleases ==
    [][(SeekedDispatch /\ ex.pc = "await" /\ ex' # ex) =>
          Head(video[ex.vid].queued) = [by |-> ex.call, to |-> ex.cursor]]_vars

-----------------------------------------------------------------------------
(* Termination *)

\* C18: every started extraction ends when its seeks complete: isExtracting
\* returns to false, with the frames published.
C18_ExtractionTerminates ==
    isExtracting ~> (~isExtracting /\ ex.pc = "idle" /\ frames = ex.extracted)

-----------------------------------------------------------------------------
(* Frames and the loaded video *)

\* C20: the frames of the collection come from the currently loaded video: an
\* extraction in flight when the video is removed or replaced never publishes
\* its frames.
C20_FramesFromCurrentVideo ==
    Len(frames) > 0 => (videoSrc # 0 /\ ex.vid = videoSrc)

-----------------------------------------------------------------------------
(* The previewed frame *)

\* C21: in every reachable state the frame collection is empty or
\* 0 <= previewFrameIndex < frames.length.
C21_PreviewIndexInRange ==
    Len(frames) > 0 => (0 <= previewFrameIndex /\ previewFrameIndex < Len(frames))

\* The last of three frames was removed with the preview on the second or
\* the third: the preview is on the last of the two frames that remain.
C21_Witness ==
    /\ Len(ex.extracted) = 3
    /\ Len(frames) = 2
    /\ frames = SubSeq(ex.extracted, 1, 2)
    /\ previewFrameIndex = 1

\* C22: a drop of a frame that is in the collection never changes which frame
\* is previewed: frames[previewFrameIndex] has the same id after it as before.
C22_DropKeepsPreview ==
    [][(handleDrop /\ draggedIdx < Len(frames)) =>
          frames'[previewFrameIndex' + 1].id = frames[previewFrameIndex + 1].id]_vars

-----------------------------------------------------------------------------
(* Opacity under the chroma key *)

=============================================================================
